---- MODULE Spec2Model ----
(***************************************************************************)
(* State-machine model of web_to_pdf_converter.py: the driver main(), the  *)
(* fetcher download_page_as_pdf() and merge_pdfs_by_creation_time(),       *)
(* running one or more times into the same download directory.             *)
(*                                                                         *)
(* A PDF file is modelled by its pages: a sequence of tokens <<i, r>>,     *)
(* the rendering of target i produced in run r.  The browser engine and    *)
(* the PDF library are external: each of their calls either succeeds with  *)
(* its documented effect or raises.                                        *)
(***************************************************************************)
EXTENDS Integers, Sequences, FiniteSets, TLC

\* Largest number of configured URLs explored (len(URLS_TO_DOWNLOAD) ranges over 0..MaxUrls).
MaxUrls == 3
\* Number of consecutive executions of the program into the same directory.
MaxRuns == 2
\* Largest number of calls, over all runs, that raise (browser, PDF library, filesystem).
MaxFaults == 2

VARIABLES
    platform,          \* meaning of os.path.getctime: "posix" (inode change) or "nt" (creation)
    urls,              \* len(URLS_TO_DOWNLOAD)
    run,               \* ordinal of the current execution of the program
    pc,                \* position of main() / merge_pdfs_by_creation_time()
    dir,               \* DOWNLOAD_DIRECTORY: file name -> [exists, ctime, content]
    now,               \* filesystem clock, advanced by every write
    idx,               \* number of loop iterations of main() started so far
    inflight,          \* targets whose download_page_as_pdf() call has not returned or raised
    stage,             \* target -> position inside download_page_as_pdf()
    outcome,           \* target -> how its fetch ended in this run
    downloaded_paths,  \* main(): downloaded_paths
    pdf_files,         \* merge: the sorted glob result
    mpos,              \* merge: number of entries of pdf_files handled by the append loop
    merger,            \* merge: pages held by the PdfMerger
    appendFailed,      \* merge: files whose merger.append raised (logged, skipped)
    dirAtMerge,        \* the directory as it was when merge_pdfs_by_creation_time was entered
    mergeInvoked,      \* main() called merge_pdfs_by_creation_time in this run
    wroteMerged,       \* this run wrote DOWNLOAD_DIRECTORY / MERGED_FILENAME
    summary,           \* the final summary message printed in this run
    complete,          \* "--- PROCESS COMPLETE ---" was printed
    fatal,             \* the call whose exception escaped main(), or "none"
    exit_status,       \* process exit status, -1 while the process runs
    faults             \* number of calls that have raised so far

vars == <<platform, urls, run, pc, dir, now, idx, inflight, stage, outcome,
          downloaded_paths, pdf_files, mpos, merger, appendFailed, dirAtMerge,
          mergeInvoked, wroteMerged, summary, complete, fatal, exit_status, faults>>

fetchVars == <<idx, inflight, stage, outcome, downloaded_paths>>
mergeVars == <<pdf_files, mpos, merger, appendFailed, dirAtMerge>>
envVars   == <<platform, urls, run>>

-----------------------------------------------------------------------------
\* Configuration and file names

MERGED_FILENAME == "combined_report.pdf"

\* filename = f"page_{i+1}.pdf", given the 1-based position i
filename(i) == "page_" \o ToString(i) \o ".pdf"

Targets == 1..MaxUrls

FileNames == {filename(i) : i \in Targets} \cup {MERGED_FILENAME}

NoFile == [exists |-> FALSE, ctime |-> 0, content |-> <<>>]

Range(s) == {s[n] : n \in 1..Len(s)}

\* Writing path f at time t.  Creating a file stamps it with t.  Rewriting an
\* existing file changes the value getctime reports on POSIX (inode change
\* time) and keeps it on Windows (creation time).
WriteFile(d, f, content, t) ==
    [d EXCEPT ![f] = [exists  |-> TRUE,
                      ctime   |-> IF d[f].exists /\ platform = "nt" THEN d[f].ctime ELSE t,
                      content |-> content]]

\* directory.glob("*.pdf")
Glob(d) == {f \in FileNames : d[f].exists}

\* Faulty variant of the sort key: newest file first.
SortKeyDescending(d, f) == 0 - d[f].ctime
\* key=lambda f: os.path.getctime(f)
SortKey(d, f) == d[f].ctime

\* sorted(files, key=...)
RECURSIVE Sorted(_, _)
Sorted(S, d) ==
    IF S = {} THEN <<>>
    ELSE LET m == CHOOSE f \in S : \A g \in S : SortKey(d, f) <= SortKey(d, g)
         IN  <<m>> \o Sorted(S \ {m}, d)

-----------------------------------------------------------------------------
\* Initial state: a fresh process, an empty download directory

FreshRun ==
    /\ pc = "start"
    /\ idx = 0
    /\ inflight = {}
    /\ stage = [i \in Targets |-> "idle"]
    /\ outcome = [i \in Targets |-> "none"]
    /\ downloaded_paths = <<>>
    /\ pdf_files = <<>>
    /\ mpos = 0
    /\ merger = <<>>
    /\ appendFailed = {}
    /\ mergeInvoked = FALSE
    /\ wroteMerged = FALSE
    /\ summary = "none"
    /\ complete = FALSE
    /\ fatal = "none"
    /\ exit_status = -1

Init ==
    /\ platform \in {"posix", "nt"}
    /\ urls \in 0..MaxUrls
    /\ run = 1
    /\ dir = [f \in FileNames |-> NoFile]
    /\ dirAtMerge = [f \in FileNames |-> NoFile]
    /\ now = 0
    /\ faults = 0
    /\ FreshRun

\* A call into the browser, the PDF library or the filesystem raises.
Raises == faults < MaxFaults /\ faults' = faults + 1

-----------------------------------------------------------------------------
\* main(), line 88: DOWNLOAD_DIRECTORY.mkdir(exist_ok=True)

MkdirOk ==
    /\ UNCHANGED faults
    /\ pc = "start"
    /\ pc' = "loop"
    /\ UNCHANGED <<envVars, dir, now, fetchVars, mergeVars, mergeInvoked,
                   wroteMerged, summary, complete, fatal, exit_status>>

\* Faulty variant: the escaping exception ends the process with status 0.
UncaughtExitsZero(call) ==
    /\ pc' = "exit"
    /\ fatal' = call
    /\ exit_status' = 0
\* An exception that no handler of main() catches leaves asyncio.run(main()):
\* the interpreter prints the traceback and the process exits with status 1.
Uncaught(call) ==
    /\ pc' = "exit"
    /\ fatal' = call
    /\ exit_status' = 1

\* mkdir raises (the path is a regular file, permission denied, ...): it is
\* outside every try block.
MkdirFail ==
    /\ Raises
    /\ pc = "start"
    /\ Uncaught("mkdir")
    /\ UNCHANGED <<envVars, dir, now, fetchVars, mergeVars, mergeInvoked,
                   wroteMerged, summary, complete>>

-----------------------------------------------------------------------------
\* main(), lines 94-104: the download loop

\* Faulty variant: the call is scheduled as a task and not awaited.
AwaitedNever == TRUE
\* `await download_page_as_pdf(...)`: the loop body does not go on, and the
\* loop does not end, until the awaited call has returned or raised.
Awaited == inflight = {}

\* for i, url in enumerate(URLS_TO_DOWNLOAD): ... download_page_as_pdf(url, filepath)
\* entered; the browser is launched and a page opened.
FetchStart ==
    /\ UNCHANGED faults
    /\ pc = "loop"
    /\ idx < urls
    /\ Awaited
    /\ idx' = idx + 1
    /\ inflight' = inflight \cup {idx + 1}
    /\ stage' = [stage EXCEPT ![idx + 1] = "goto"]
    /\ UNCHANGED <<envVars, pc, dir, now, outcome, downloaded_paths, mergeVars,
                   mergeInvoked, wroteMerged, summary, complete, fatal, exit_status>>

\* Faulty variant: the loop body has no try/except, the exception leaves main().
FetchRaisedUncaught(k) ==
    /\ outcome' = [outcome EXCEPT ![k] = "failed"]
    /\ stage' = [stage EXCEPT ![k] = "idle"]
    /\ inflight' = inflight \ {k}
    /\ Uncaught("fetch")
    /\ UNCHANGED <<idx, downloaded_paths>>
\* except Exception as e: print("[CRITICAL ERROR] ...") -- the failure of
\* target k is logged, nothing is appended to downloaded_paths, the loop goes on.
FetchRaised(k) ==
    /\ outcome' = [outcome EXCEPT ![k] = "failed"]
    /\ stage' = [stage EXCEPT ![k] = "idle"]
    /\ inflight' = inflight \ {k}
    /\ UNCHANGED <<idx, downloaded_paths, pc, fatal, exit_status>>

\* lines 30-38: launch, new_page, goto succeed; the fixed pause is taken.
FetchGotoOk(k) ==
    /\ UNCHANGED faults
    /\ k \in inflight
    /\ stage[k] = "goto"
    /\ stage' = [stage EXCEPT ![k] = "pdf"]
    /\ UNCHANGED <<envVars, pc, dir, now, idx, inflight, outcome, downloaded_paths,
                   mergeVars, mergeInvoked, wroteMerged, summary, complete, fatal,
                   exit_status>>

\* lines 30-36: launching the browser or navigating raises; no file is written.
FetchGotoFail(k) ==
    /\ Raises
    /\ k \in inflight
    /\ stage[k] = "goto"
    /\ FetchRaised(k)
    /\ UNCHANGED <<envVars, dir, now, mergeVars, mergeInvoked, wroteMerged,
                   summary, complete>>

\* line 42: page.pdf(path=str(filepath)) writes the rendered page to filepath.
FetchPdfOk(k) ==
    /\ UNCHANGED faults
    /\ k \in inflight
    /\ stage[k] = "pdf"
    /\ now' = now + 1
    /\ dir' = WriteFile(dir, filename(k), << <<k, run>> >>, now + 1)
    /\ stage' = [stage EXCEPT ![k] = "close"]
    /\ UNCHANGED <<envVars, pc, idx, inflight, outcome, downloaded_paths, mergeVars,
                   mergeInvoked, wroteMerged, summary, complete, fatal, exit_status>>

\* line 42: page.pdf raises before anything is written.
FetchPdfFail(k) ==
    /\ Raises
    /\ k \in inflight
    /\ stage[k] = "pdf"
    /\ FetchRaised(k)
    /\ UNCHANGED <<envVars, dir, now, mergeVars, mergeInvoked, wroteMerged,
                   summary, complete>>

\* lines 44-45, 101-102: browser.close() and the exit of the async with
\* succeed, filepath is returned and appended to downloaded_paths.
FetchCloseOk(k) ==
    /\ UNCHANGED faults
    /\ k \in inflight
    /\ stage[k] = "close"
    /\ stage' = [stage EXCEPT ![k] = "idle"]
    /\ outcome' = [outcome EXCEPT ![k] = "ok"]
    /\ inflight' = inflight \ {k}
    /\ downloaded_paths' = Append(downloaded_paths, filename(k))
    /\ UNCHANGED <<envVars, pc, dir, now, idx, mergeVars, mergeInvoked, wroteMerged,
                   summary, complete, fatal, exit_status>>

\* line 44: browser.close() (or leaving the async with) raises after the PDF
\* was saved: the call fails although filepath is on disk.
FetchCloseFail(k) ==
    /\ Raises
    /\ k \in inflight
    /\ stage[k] = "close"
    /\ FetchRaised(k)
    /\ UNCHANGED <<envVars, dir, now, mergeVars, mergeInvoked, wroteMerged,
                   summary, complete>>

-----------------------------------------------------------------------------
\* main(), lines 107-112: what to do with the downloads

\* Faulty variant: >= 1 instead of > 1.
ShouldMergeOneIsEnough == Len(downloaded_paths) >= 1
\* if len(downloaded_paths) > 1
ShouldMerge == Len(downloaded_paths) > 1

LoopDone == pc = "loop" /\ idx = urls /\ Awaited

CallMerge ==
    /\ UNCHANGED faults
    /\ LoopDone
    /\ ShouldMerge
    /\ pc' = "merge_scan"
    /\ mergeInvoked' = TRUE
    /\ dirAtMerge' = dir
    /\ UNCHANGED <<envVars, dir, now, fetchVars, pdf_files, mpos, merger, appendFailed,
                   wroteMerged, summary, complete, fatal, exit_status>>

\* elif len(downloaded_paths) == 1: "Only one PDF was downloaded. No merging required"
\* else: "No files were successfully downloaded."
NoMerge ==
    /\ UNCHANGED faults
    /\ LoopDone
    /\ ~ShouldMerge
    /\ summary' = IF Len(downloaded_paths) = 1 THEN "only_one" ELSE "no_files"
    /\ pc' = "complete"
    /\ UNCHANGED <<envVars, dir, now, fetchVars, mergeVars, mergeInvoked, wroteMerged,
                   complete, fatal, exit_status>>

-----------------------------------------------------------------------------
\* merge_pdfs_by_creation_time(DOWNLOAD_DIRECTORY, MERGED_FILENAME)

\* lines 52-59: glob, sort by getctime, return if nothing matched
MergeScan ==
    /\ UNCHANGED faults
    /\ pc = "merge_scan"
    /\ pdf_files' = Sorted(Glob(dir), dir)
    /\ mpos' = 0
    /\ merger' = <<>>
    /\ IF Glob(dir) = {}
       THEN /\ summary' = "no_pdfs"
            /\ pc' = "complete"
       ELSE /\ pc' = "merge_append"
            /\ UNCHANGED summary
    /\ UNCHANGED <<envVars, dir, now, fetchVars, appendFailed, dirAtMerge, mergeInvoked,
                   wroteMerged, complete, fatal, exit_status>>

\* lines 66-69: merger.append(str(pdf)) adds the pages of the next file
MergeAppendOk ==
    /\ UNCHANGED faults
    /\ pc = "merge_append"
    /\ mpos < Len(pdf_files)
    /\ merger' = merger \o dir[pdf_files[mpos + 1]].content
    /\ mpos' = mpos + 1
    /\ UNCHANGED <<envVars, pc, dir, now, fetchVars, pdf_files, appendFailed, dirAtMerge,
                   mergeInvoked, wroteMerged, summary, complete, fatal, exit_status>>

\* lines 70-71: merger.append raises; the error is printed and the loop goes on
MergeAppendFail ==
    /\ Raises
    /\ pc = "merge_append"
    /\ mpos < Len(pdf_files)
    /\ appendFailed' = appendFailed \cup {pdf_files[mpos + 1]}
    /\ mpos' = mpos + 1
    /\ UNCHANGED <<envVars, pc, dir, now, fetchVars, pdf_files, merger, dirAtMerge,
                   mergeInvoked, wroteMerged, summary, complete, fatal, exit_status>>

\* lines 74-79: open(output_path, "wb"), merger.write(f), merger.close()
MergeWriteOk ==
    /\ UNCHANGED faults
    /\ pc = "merge_append"
    /\ mpos = Len(pdf_files)
    /\ now' = now + 1
    /\ dir' = WriteFile(dir, MERGED_FILENAME, merger, now + 1)
    /\ wroteMerged' = TRUE
    /\ summary' = "merged"
    /\ pc' = "complete"
    /\ UNCHANGED <<envVars, fetchVars, mergeVars, mergeInvoked, complete, fatal,
                   exit_status>>

\* line 75: the output file cannot be opened for writing; nothing catches it
MergeWriteFail ==
    /\ Raises
    /\ pc = "merge_append"
    /\ mpos = Len(pdf_files)
    /\ Uncaught("write")
    /\ UNCHANGED <<envVars, dir, now, fetchVars, mergeVars, mergeInvoked, wroteMerged,
                   summary, complete>>

-----------------------------------------------------------------------------
\* main(), line 114, and the normal end of asyncio.run(main())
Complete ==
    /\ UNCHANGED faults
    /\ pc = "complete"
    /\ complete' = TRUE
    /\ pc' = "exit"
    /\ exit_status' = 0
    /\ UNCHANGED <<envVars, dir, now, fetchVars, mergeVars, mergeInvoked, wroteMerged,
                   summary, fatal>>

\* The program is started again; only the directory (and the clock) persist.
NextRun ==
    /\ UNCHANGED faults
    /\ pc = "exit"
    /\ run < MaxRuns
    /\ run' = run + 1
    /\ pc' = "start"
    /\ idx' = 0
    /\ inflight' = {}
    /\ stage' = [i \in Targets |-> "idle"]
    /\ outcome' = [i \in Targets |-> "none"]
    /\ downloaded_paths' = <<>>
    /\ pdf_files' = <<>>
    /\ mpos' = 0
    /\ merger' = <<>>
    /\ appendFailed' = {}
    /\ dirAtMerge' = [f \in FileNames |-> NoFile]
    /\ mergeInvoked' = FALSE
    /\ wroteMerged' = FALSE
    /\ summary' = "none"
    /\ complete' = FALSE
    /\ fatal' = "none"
    /\ exit_status' = -1
    /\ UNCHANGED <<platform, urls, dir, now>>

Next ==
    \/ MkdirOk
    \/ MkdirFail
    \/ FetchStart
    \/ \E k \in Targets : FetchGotoOk(k)
    \/ \E k \in Targets : FetchGotoFail(k)
    \/ \E k \in Targets : FetchPdfOk(k)
    \/ \E k \in Targets : FetchPdfFail(k)
    \/ \E k \in Targets : FetchCloseOk(k)
    \/ \E k \in Targets : FetchCloseFail(k)
    \/ CallMerge
    \/ NoMerge
    \/ MergeScan
    \/ MergeAppendOk
    \/ MergeAppendFail
    \/ MergeWriteOk
    \/ MergeWriteFail
    \/ Complete
    \/ NextRun

Spec == Init /\ [][Next]_vars

\* The process is scheduled until it exits: every enabled step of the single
\* thread of control is eventually taken.
FairSpec == Spec /\ WF_vars(Next)

TypeOK ==
    /\ platform \in {"posix", "nt"}
    /\ urls \in 0..MaxUrls
    /\ run \in 1..MaxRuns
    /\ idx \in 0..urls
    /\ inflight \subseteq Targets
    /\ exit_status \in {-1, 0, 1}
    /\ faults \in 0..MaxFaults

-----------------------------------------------------------------------------
\* Vocabulary of the properties

\* Targets whose fetch returned (resp. raised) in this run
Succeeded == {i \in 1..urls : outcome[i] = "ok"}
Failed    == {i \in 1..urls : outcome[i] = "failed"}

\* page_<i>.pdf holds the page rendered for target i in this run
SavedThisRun(i) ==
    /\ dir[filename(i)].exists
    /\ dir[filename(i)].content = << <<i, run>> >>

merged == dir[MERGED_FILENAME].content

\* The targets whose pages a document holds
TargetsOf(content) == {content[n][1] : n \in 1..Len(content)}

\* The pages of the files fs, in that order, as directory d holds them
RECURSIVE ConcatOf(_, _)
ConcatOf(fs, d) ==
    IF fs = <<>> THEN <<>> ELSE d[Head(fs)].content \o ConcatOf(Tail(fs), d)

Appended(f) == f \notin appendFailed
IsPageFile(f) == f # MERGED_FILENAME

PageFilesIn(d) == {i \in Targets : d[filename(i)].exists}

MergeReturned == mergeInvoked /\ pc \in {"complete", "exit"}

-----------------------------------------------------------------------------
\* C1 (as claimed): in a run where exactly the fetch of target k fails, leaving
\* nothing on disk, all other fetches succeed, at least two succeed and no
\* other call raises, the run completes and the merged file it writes holds
\* every page fetched in this run and no page for target k -- whatever files
\* earlier runs left in the directory.
C1_FailedTargetAbsent ==
    \A k \in 1..urls :
        ( /\ pc = "exit"
          /\ fatal = "none"
          /\ appendFailed = {}
          /\ Failed = {k}
          /\ ~SavedThisRun(k)
          /\ Succeeded = (1..urls) \ {k}
          /\ Cardinality(Succeeded) >= 2 )
        => /\ exit_status = 0
           /\ wroteMerged
           /\ \A i \in Succeeded : <<i, run>> \in Range(merged)
           /\ k \notin TargetsOf(merged)

C3_ConfiguredOrder ==
    wroteMerged =>
        \A m, n \in 1..Len(merged) : m < n => merged[m][1] <= merged[n][1]

\* C4: once every target has been attempted, merge_pdfs_by_creation_time is
\* called iff at least two fetches succeeded in this run; with exactly one
\* success the single file is reported, with none "no files" is reported, and
\* in both cases no merged file is written; a merged file is written only when
\* the directory holds at least two page files.
C4_MergeOnlyForTwoOrMore ==
    /\ pc \in {"start", "loop"} => ~mergeInvoked /\ ~wroteMerged
    /\ (pc \notin {"start", "loop"} /\ fatal # "mkdir") =>
           /\ mergeInvoked <=> Cardinality(Succeeded) >= 2
           /\ Cardinality(Succeeded) < 2 =>
                  /\ ~wroteMerged
                  /\ summary = IF Cardinality(Succeeded) = 1 THEN "only_one" ELSE "no_files"
    /\ wroteMerged =>
           /\ Cardinality(PageFilesIn(dirAtMerge)) >= 2
           /\ Cardinality(PageFilesIn(dir)) >= 2

\* C4 witness: a run ended with exactly one successful fetch and merged
\* nothing, although the directory holds two page files and an earlier merge.
C4_Witness ==
    /\ pc = "exit"
    /\ Cardinality(Succeeded) = 1
    /\ Failed # {}
    /\ summary = "only_one"
    /\ Cardinality(PageFilesIn(dir)) >= 2
    /\ dir[MERGED_FILENAME].exists

\* C5: whatever fetches and appends fail, every started run exits; unless
\* mkdir or the output write raised, it has then attempted every target,
\* handled every failure, printed PROCESS COMPLETE and exits with status 0.
C5_RunsToCompletion ==
    /\ [](pc = "start" => <>(pc = "exit"))
    /\ []( (pc = "exit" /\ fatal \notin {"mkdir", "write"}) =>
               /\ exit_status = 0
               /\ complete
               /\ idx = urls
               /\ inflight = {}
               /\ \A i \in 1..urls : outcome[i] \in {"ok", "failed"} )

\* C5 witness: a run with a failed fetch followed by a successful one and a
\* failed append exited with status 0.
C5_Witness ==
    /\ pc = "exit"
    /\ exit_status = 0
    /\ complete
    /\ appendFailed # {}
    /\ \E i, j \in 1..urls : i < j /\ outcome[i] = "failed" /\ outcome[j] = "ok"

C7_MergedFromPagesOnly ==
    wroteMerged =>
        /\ MERGED_FILENAME \notin Range(pdf_files)
        /\ merged = ConcatOf(SelectSeq(SelectSeq(pdf_files, IsPageFile), Appended), dirAtMerge)

\* C8 (as claimed): a call of merge_pdfs_by_creation_time changes no file other
\* than directory/output_filename, leaves every file it matched as it was, and
\* changes nothing when nothing matched.
C8_MergeInputsUntouched ==
    MergeReturned =>
        /\ \A f \in FileNames \ {MERGED_FILENAME} : dir[f] = dirAtMerge[f]
        /\ \A f \in Range(pdf_files) : dir[f] = dirAtMerge[f]
        /\ pdf_files = <<>> => dir = dirAtMerge

\* C9: at most one fetch is in flight; the fetch in flight is that of the
\* latest target started and every earlier target has finished; the merge
\* runs only when no fetch is in flight and every target has been attempted.
C9_SequentialFetches ==
    /\ Cardinality(inflight) <= 1
    /\ \A k \in inflight :
           /\ k = idx
           /\ \A i \in 1..(k - 1) : outcome[i] \in {"ok", "failed"}
    /\ \A i \in 1..urls : i > idx => outcome[i] = "none" /\ stage[i] = "idle"
    /\ (mergeInvoked \/ pc \in {"merge_scan", "merge_append", "complete"}) =>
           /\ inflight = {}
           /\ idx = urls
           /\ \A i \in 1..urls : outcome[i] \in {"ok", "failed"}

\* C9 witness: the second fetch is exporting its PDF after the first one
\* failed, with a third target still to come.
C9_Witness ==
    /\ urls >= 3
    /\ inflight = {2}
    /\ stage[2] = "pdf"
    /\ outcome[1] = "failed"

\* C10 (as claimed): at the end of a run into an initially empty directory,
\* page_<i>.pdf exists iff the fetch of target i succeeded, and
\* downloaded_paths lists exactly those files in increasing i.
C10_PageFileIffSucceeded ==
    (pc = "exit" /\ run = 1) =>
        /\ \A i \in Targets : dir[filename(i)].exists <=> i \in Succeeded
        /\ Range(downloaded_paths) = {filename(i) : i \in Succeeded}
        /\ Len(downloaded_paths) = Cardinality(Succeeded)
        /\ \A m, n \in 1..Len(downloaded_paths) :
               m < n => \E i, j \in Succeeded :
                            /\ i < j
                            /\ downloaded_paths[m] = filename(i)
                            /\ downloaded_paths[n] = filename(j)

====
